---- MODULE Spec2Model ----
(***************************************************************************)
(* A model of the B-Tree of src/btree/__init__.py.                         *)
(*                                                                         *)
(* A node is a record [keys, min_degree, children, is_leaf]; the tree owns *)
(* its nodes exclusively, so a node is modelled as a value and a method    *)
(* that mutates self as an operator returning the node after the call.     *)
(* A method that can raise (an index out of range) returns                 *)
(* [node, raised]: the node as the call left it and whether it raised.     *)
(* Python lists are 0-based; sequences here are 1-based, and At/InRange    *)
(* translate an index the way Python does (negative indices included).     *)
(***************************************************************************)
EXTENDS Integers, Sequences, FiniteSets, TLC

\* ---------------------------------------------------------------- bounds
\* Keys range over 1..MaxKey.  A key the tree already holds is inserted again
\* only if it is at most MaxDupKey and the tree holds fewer than MaxDup such
\* copies; min_degree ranges over MinDegree..MaxDegree.
MaxKey == 4
MaxDupKey == 1
MaxDup == 5
MaxDegree == 3
MinDegree == 2
\* The constructor is also called with the MaxBelow arguments below MinDegree.
MaxBelow == 3
MaxSteps == 6

Keys == 1..MaxKey
Degrees == MinDegree..MaxDegree
Arguments == (MinDegree - MaxBelow)..MaxDegree

VARIABLES root, min_degree, raised, op, result, present, inserted, only_inserts,
          main_root, call

vars == <<root, min_degree, raised, op, result, present, inserted, only_inserts,
          main_root, call>>

\* ------------------------------------------------------ Python list access
InRange(s, i) == -Len(s) <= i /\ i < Len(s)

Pos(s, i) == IF i >= 0 THEN i + 1 ELSE Len(s) + i + 1

At(s, i) == s[Pos(s, i)]

SetAt(s, i, x) == [s EXCEPT ![Pos(s, i)] = x]

SliceTo(s, j) == SubSeq(s, 1, IF j > Len(s) THEN Len(s) ELSE j)

SliceFrom(s, i) == SubSeq(s, (IF i > Len(s) THEN Len(s) ELSE i) + 1, Len(s))

ListInsert(s, i, x) ==
    LET n == IF i < 0 THEN (IF Len(s) + i < 0 THEN 0 ELSE Len(s) + i)
             ELSE (IF i > Len(s) THEN Len(s) ELSE i)
    IN  SliceTo(s, n) \o <<x>> \o SliceFrom(s, n)

ListPop(s, i) == SliceTo(s, Pos(s, i) - 1) \o SliceFrom(s, Pos(s, i))

RECURSIVE bisect_left(_, _, _, _)
bisect_left(a, x, lo, hi) ==
    IF lo < hi
    THEN LET mid == (lo + hi) \div 2
         IN  IF At(a, mid) < x THEN bisect_left(a, x, mid + 1, hi)
                               ELSE bisect_left(a, x, lo, mid)
    ELSE lo

\* The result of a call, handed to the statements that follow the call: the
\* call is evaluated once, whatever the number of times its result is read.
With(value, rest(_)) == CHOOSE r \in {rest(x) : x \in {value}} : TRUE

\* -------------------------------------------------------------- BTreeNode
BTreeNode(t, leaf) ==
    [keys |-> <<>>, min_degree |-> t, children |-> <<>>, is_leaf |-> leaf]

Ok(node) == [node |-> node, raised |-> FALSE]

Raise(node) == [node |-> node, raised |-> TRUE]

get_key_index(self, key) == bisect_left(self.keys, key, 0, Len(self.keys))

is_full(self) == Len(self.keys) = (2 * self.min_degree) - 1

\* split_child creating the new sibling as a leaf whatever the child is.
split_child_leaf(self, child_index) ==
    LET existing_child == At(self.children, child_index)
        t == self.min_degree
        new_child == [keys |-> SliceFrom(existing_child.keys, t),
                      min_degree |-> t,
                      children |-> IF ~existing_child.is_leaf
                                   THEN SliceFrom(existing_child.children, t)
                                   ELSE <<>>,
                      is_leaf |-> TRUE]
        old_child == [existing_child EXCEPT
                         !.keys = SliceTo(existing_child.keys, t - 1),
                         !.children = IF ~existing_child.is_leaf
                                      THEN SliceTo(existing_child.children, t)
                                      ELSE existing_child.children]
    IN  Ok([self EXCEPT
              !.children = ListInsert(SetAt(self.children, child_index, old_child),
                                      child_index + 1, new_child),
              !.keys = ListInsert(self.keys, child_index,
                                  At(existing_child.keys, t - 1))])

\* split_child copying the median into the new sibling too (keys[t-1:]).
split_child_dup_median(self, child_index) ==
    LET existing_child == At(self.children, child_index)
        t == self.min_degree
        new_child == [keys |-> SliceFrom(existing_child.keys, t - 1),
                      min_degree |-> t,
                      children |-> IF ~existing_child.is_leaf
                                   THEN SliceFrom(existing_child.children, t)
                                   ELSE <<>>,
                      is_leaf |-> existing_child.is_leaf]
        old_child == [existing_child EXCEPT
                         !.keys = SliceTo(existing_child.keys, t - 1),
                         !.children = IF ~existing_child.is_leaf
                                      THEN SliceTo(existing_child.children, t)
                                      ELSE existing_child.children]
    IN  Ok([self EXCEPT
              !.children = ListInsert(SetAt(self.children, child_index, old_child),
                                      child_index + 1, new_child),
              !.keys = ListInsert(self.keys, child_index,
                                  At(existing_child.keys, t - 1))])

\* split_child putting the median one slot to the right in the parent.
split_child_next_slot(self, child_index) ==
    IF ~InRange(self.children, child_index) THEN Raise(self)
    ELSE
    LET existing_child == At(self.children, child_index)
        t == self.min_degree
    IN  IF ~InRange(existing_child.keys, t - 1) THEN Raise(self)
        ELSE
        LET middle_key == At(existing_child.keys, t - 1)
            new_child ==
                [keys |-> SliceFrom(existing_child.keys, t),
                 min_degree |-> t,
                 children |-> IF ~existing_child.is_leaf
                              THEN SliceFrom(existing_child.children, t)
                              ELSE <<>>,
                 is_leaf |-> existing_child.is_leaf]
            old_child ==
                [existing_child EXCEPT
                    !.keys = SliceTo(existing_child.keys, t - 1),
                    !.children = IF ~existing_child.is_leaf
                                 THEN SliceTo(existing_child.children, t)
                                 ELSE existing_child.children]
        IN  Ok([self EXCEPT
                  !.children = ListInsert(SetAt(self.children, child_index, old_child),
                                          child_index + 1, new_child),
                  !.keys = ListInsert(self.keys, child_index + 1, middle_key)])

split_child(self, child_index) ==
    IF ~InRange(self.children, child_index) THEN Raise(self)
    ELSE
    LET existing_child == At(self.children, child_index)
        t == self.min_degree
    IN  IF ~InRange(existing_child.keys, t - 1) THEN Raise(self)
        ELSE
        LET middle_key == At(existing_child.keys, t - 1)
            new_child ==
                [keys |-> SliceFrom(existing_child.keys, t),
                 min_degree |-> t,
                 children |-> IF ~existing_child.is_leaf
                              THEN SliceFrom(existing_child.children, t)
                              ELSE <<>>,
                 is_leaf |-> existing_child.is_leaf]
            old_child ==
                [existing_child EXCEPT
                    !.keys = SliceTo(existing_child.keys, t - 1),
                    !.children = IF ~existing_child.is_leaf
                                 THEN SliceTo(existing_child.children, t)
                                 ELSE existing_child.children]
        IN  Ok([self EXCEPT
                  !.children = ListInsert(SetAt(self.children, child_index, old_child),
                                          child_index + 1, new_child),
                  !.keys = ListInsert(self.keys, child_index, middle_key)])

RECURSIVE insert_non_full(_, _)
insert_into_child(self, child_index, key) ==
    IF ~InRange(self.children, child_index) THEN Raise(self)
    ELSE LET r == insert_non_full(At(self.children, child_index), key)
         IN  [node |-> [self EXCEPT !.children = SetAt(self.children, child_index, r.node)],
              raised |-> r.raised]

\* insert_non_full descending without splitting a full child.
insert_step_no_split(self, key) ==
    [node |-> self, index |-> get_key_index(self, key),
     raised |-> ~InRange(self.children, get_key_index(self, key))]

\* The descent step of insert_non_full on an internal node: the node after the
\* split of a full child, and the index of the child the key goes to.
insert_step(self, key) ==
    LET child_index == get_key_index(self, key)
    IN  IF ~InRange(self.children, child_index)
        THEN [node |-> self, index |-> child_index, raised |-> TRUE]
        ELSE IF is_full(At(self.children, child_index))
        THEN LET s == split_child(self, child_index)
             IN  IF s.raised
                 THEN [node |-> s.node, index |-> child_index, raised |-> TRUE]
                 ELSE IF key > At(s.node.keys, child_index)
                      THEN [node |-> s.node, index |-> child_index + 1, raised |-> FALSE]
                      ELSE [node |-> s.node, index |-> child_index, raised |-> FALSE]
        ELSE [node |-> self, index |-> child_index, raised |-> FALSE]

insert_non_full(self, key) ==
    IF self.is_leaf
    THEN LET key_index == get_key_index(self, key)
         IN  Ok([self EXCEPT !.keys = ListInsert(self.keys, key_index, key)])
    ELSE LET st == insert_step(self, key)
         IN  IF st.raised THEN Raise(st.node)
             ELSE insert_into_child(st.node, st.index, key)

\* The nodes insert_non_full is called on when key is inserted below self, in
\* order: self, then each child the descent goes to.
RECURSIVE insert_calls(_, _)
insert_calls(self, key) ==
    IF self.is_leaf THEN <<self>>
    ELSE LET st == insert_step(self, key)
         IN  IF st.raised \/ ~InRange(st.node.children, st.index) THEN <<self>>
             ELSE <<self>> \o insert_calls(At(st.node.children, st.index), key)

RECURSIVE traverse(_)
RECURSIVE traverse_from(_, _)
traverse_from(self, i) ==
    IF i >= Len(self.keys)
    THEN traverse(At(self.children, Len(self.keys)))
    ELSE traverse(At(self.children, i)) \o <<At(self.keys, i)>> \o traverse_from(self, i + 1)

traverse(self) ==
    IF self.is_leaf THEN self.keys ELSE traverse_from(self, 0)

\* search returns an Optional node: <<>> is None, <<n>> is the node n.
RECURSIVE search(_, _)
search(self, key) ==
    IF self.keys = <<>> THEN [value |-> <<>>, raised |-> FALSE]
    ELSE LET idx == get_key_index(self, key)
         IN  IF idx < Len(self.keys) /\ At(self.keys, idx) = key
             THEN [value |-> <<self>>, raised |-> FALSE]
             ELSE IF self.is_leaf THEN [value |-> <<>>, raised |-> FALSE]
             ELSE IF ~InRange(self.children, idx) THEN [value |-> <<>>, raised |-> TRUE]
             ELSE search(At(self.children, idx), key)

RECURSIVE get_predecessor(_)
get_predecessor(self) ==
    IF ~self.is_leaf
    THEN IF ~InRange(self.children, -1) THEN [value |-> 0, raised |-> TRUE]
         ELSE get_predecessor(At(self.children, -1))
    ELSE IF ~InRange(self.keys, -1) THEN [value |-> 0, raised |-> TRUE]
         ELSE [value |-> At(self.keys, -1), raised |-> FALSE]

RECURSIVE get_successor(_)
get_successor(self) ==
    IF ~self.is_leaf
    THEN IF ~InRange(self.children, 0) THEN [value |-> 0, raised |-> TRUE]
         ELSE get_successor(At(self.children, 0))
    ELSE IF ~InRange(self.keys, 0) THEN [value |-> 0, raised |-> TRUE]
         ELSE [value |-> At(self.keys, 0), raised |-> FALSE]

borrow_from_prev(self, idx) ==
    IF ~InRange(self.children, idx) \/ ~InRange(self.children, idx - 1)
       \/ ~InRange(self.keys, idx - 1)
    THEN Raise(self)
    ELSE
    LET child == At(self.children, idx)
        sibling == At(self.children, idx - 1)
        child1 == [child EXCEPT !.keys = ListInsert(child.keys, 0, At(self.keys, idx - 1))]
        moves == ~child.is_leaf
        self1 == [self EXCEPT !.children = SetAt(self.children, idx, child1)]
    IN  IF moves /\ sibling.children = <<>> THEN Raise(self1)
        ELSE
        LET child2 == IF moves
                      THEN [child1 EXCEPT !.children =
                               ListInsert(child1.children, 0, At(sibling.children, -1))]
                      ELSE child1
            sibling1 == IF moves
                        THEN [sibling EXCEPT !.children = ListPop(sibling.children, -1)]
                        ELSE sibling
            self2 == [self EXCEPT !.children =
                         SetAt(SetAt(self.children, idx, child2), idx - 1, sibling1)]
        IN  IF sibling1.keys = <<>> THEN Raise(self2)
            ELSE
            LET sibling2 == [sibling1 EXCEPT !.keys = ListPop(sibling1.keys, -1)]
            IN  Ok([self EXCEPT
                      !.children = SetAt(SetAt(self.children, idx, child2), idx - 1, sibling2),
                      !.keys = SetAt(self.keys, idx - 1, At(sibling1.keys, -1))])

borrow_from_next(self, idx) ==
    IF ~InRange(self.children, idx) \/ ~InRange(self.children, idx + 1)
       \/ ~InRange(self.keys, idx)
    THEN Raise(self)
    ELSE
    LET child == At(self.children, idx)
        sibling == At(self.children, idx + 1)
        child1 == [child EXCEPT !.keys = Append(child.keys, At(self.keys, idx))]
        moves == ~child.is_leaf
        self1 == [self EXCEPT !.children = SetAt(self.children, idx, child1)]
    IN  IF moves /\ sibling.children = <<>> THEN Raise(self1)
        ELSE
        LET child2 == IF moves
                      THEN [child1 EXCEPT !.children =
                               Append(child1.children, At(sibling.children, 0))]
                      ELSE child1
            sibling1 == IF moves
                        THEN [sibling EXCEPT !.children = ListPop(sibling.children, 0)]
                        ELSE sibling
            self2 == [self EXCEPT !.children =
                         SetAt(SetAt(self.children, idx, child2), idx + 1, sibling1)]
        IN  IF sibling1.keys = <<>> THEN Raise(self2)
            ELSE
            LET sibling2 == [sibling1 EXCEPT !.keys = ListPop(sibling1.keys, 0)]
            IN  Ok([self EXCEPT
                      !.children = SetAt(SetAt(self.children, idx, child2), idx + 1, sibling2),
                      !.keys = SetAt(self.keys, idx, At(sibling1.keys, 0))])

\* merge leaving the absorbed sibling in self.children.
merge_keep_sibling(self, idx) ==
    LET child == At(self.children, idx)
        sibling == At(self.children, idx + 1)
        child1 == [child EXCEPT
                     !.keys = Append(child.keys, At(self.keys, idx)) \o sibling.keys,
                     !.children = IF ~child.is_leaf
                                  THEN child.children \o sibling.children
                                  ELSE child.children]
    IN  Ok([self EXCEPT
              !.keys = ListPop(self.keys, idx),
              !.children = SetAt(self.children, idx, child1)])

merge(self, idx) ==
    IF ~InRange(self.children, idx) \/ ~InRange(self.children, idx + 1)
       \/ ~InRange(self.keys, idx)
    THEN Raise(self)
    ELSE
    LET child == At(self.children, idx)
        sibling == At(self.children, idx + 1)
        child1 == [child EXCEPT
                     !.keys = Append(child.keys, At(self.keys, idx)) \o sibling.keys,
                     !.children = IF ~child.is_leaf
                                  THEN child.children \o sibling.children
                                  ELSE child.children]
    IN  Ok([self EXCEPT
              !.keys = ListPop(self.keys, idx),
              !.children = ListPop(SetAt(self.children, idx, child1), idx + 1)])

\* fill neither borrowing nor merging.
fill_skip(self, idx) == Ok(self)

\* fill merging without looking for a sibling that can lend a key.
fill_merge_only(self, idx) ==
    IF idx # Len(self.keys) THEN merge(self, idx) ELSE merge(self, idx - 1)

fill(self, idx) ==
    IF idx # 0 /\ ~InRange(self.children, idx - 1) THEN Raise(self)
    ELSE IF idx # 0 /\ Len(At(self.children, idx - 1).keys) >= self.min_degree
    THEN borrow_from_prev(self, idx)
    ELSE IF idx # Len(self.keys) /\ ~InRange(self.children, idx + 1) THEN Raise(self)
    ELSE IF idx # Len(self.keys) /\ Len(At(self.children, idx + 1).keys) >= self.min_degree
    THEN borrow_from_next(self, idx)
    ELSE IF idx # Len(self.keys)
    THEN merge(self, idx)
    ELSE merge(self, idx - 1)

\* remove_from_leaf popping the last key (keys.pop()) instead of keys.pop(idx).
remove_from_leaf_last(self, idx) ==
    IF self.keys = <<>> THEN Raise(self)
    ELSE Ok([self EXCEPT !.keys = ListPop(self.keys, -1)])

remove_from_leaf(self, idx) ==
    IF ~InRange(self.keys, idx) THEN Raise(self)
    ELSE Ok([self EXCEPT !.keys = ListPop(self.keys, idx)])

RECURSIVE delete_internal(_, _)
delete_from_child(self, idx, key) ==
    IF ~InRange(self.children, idx) THEN Raise(self)
    ELSE LET r == delete_internal(At(self.children, idx), key)
         IN  [node |-> [self EXCEPT !.children = SetAt(self.children, idx, r.node)],
              raised |-> r.raised]

\* remove_from_non_leaf trying the successor before the predecessor.
non_leaf_step_successor_first(self, idx) ==
    LET Failed == [node |-> self, index |-> idx, key |-> 0, raised |-> TRUE]
    IN
    IF ~InRange(self.keys, idx) \/ ~InRange(self.children, idx)
       \/ ~InRange(self.children, idx + 1) THEN Failed
    ELSE
    LET key == At(self.keys, idx)
    IN  IF Len(At(self.children, idx + 1).keys) >= self.min_degree
        THEN LET succ == get_successor(At(self.children, idx + 1))
             IN  IF succ.raised THEN Failed
                 ELSE [node |-> [self EXCEPT !.keys = SetAt(self.keys, idx, succ.value)],
                       index |-> idx + 1, key |-> succ.value, raised |-> FALSE]
        ELSE IF Len(At(self.children, idx).keys) >= self.min_degree
        THEN LET pred == get_predecessor(At(self.children, idx))
             IN  IF pred.raised THEN Failed
                 ELSE [node |-> [self EXCEPT !.keys = SetAt(self.keys, idx, pred.value)],
                       index |-> idx, key |-> pred.value, raised |-> FALSE]
        ELSE LET m == merge(self, idx)
             IN  [node |-> m.node, index |-> idx, key |-> key, raised |-> m.raised]

\* The step of remove_from_non_leaf before its recursive call: the node after
\* the key was replaced or the children merged, the index of the child the
\* call goes to and the key it is asked to delete.
non_leaf_step(self, idx) ==
    LET Failed == [node |-> self, index |-> idx, key |-> 0, raised |-> TRUE]
    IN
    IF ~InRange(self.keys, idx) \/ ~InRange(self.children, idx) THEN Failed
    ELSE
    LET key == At(self.keys, idx)
    IN  IF Len(At(self.children, idx).keys) >= self.min_degree
        THEN LET pred == get_predecessor(At(self.children, idx))
             IN  IF pred.raised THEN Failed
                 ELSE [node |-> [self EXCEPT !.keys = SetAt(self.keys, idx, pred.value)],
                       index |-> idx, key |-> pred.value, raised |-> FALSE]
        ELSE IF ~InRange(self.children, idx + 1) THEN Failed
        ELSE IF Len(At(self.children, idx + 1).keys) >= self.min_degree
        THEN LET succ == get_successor(At(self.children, idx + 1))
             IN  IF succ.raised THEN Failed
                 ELSE [node |-> [self EXCEPT !.keys = SetAt(self.keys, idx, succ.value)],
                       index |-> idx + 1, key |-> succ.value, raised |-> FALSE]
        ELSE With(merge(self, idx), LAMBDA m :
                 [node |-> m.node, index |-> idx, key |-> key, raised |-> m.raised])

remove_from_non_leaf(self, idx) ==
    With(non_leaf_step(self, idx), LAMBDA st :
        IF st.raised THEN Raise(st.node)
        ELSE delete_from_child(st.node, st.index, st.key))

\* _delete_internal descending without filling the child.
descend_step_no_fill(self, idx) ==
    [node |-> self, index |-> idx, raised |-> ~InRange(self.children, idx)]

\* _delete_internal descending into children[idx] whatever fill did.
descend_step_no_flag(self, idx) ==
    IF ~InRange(self.children, idx)
    THEN [node |-> self, index |-> idx, raised |-> TRUE]
    ELSE LET f == IF Len(At(self.children, idx).keys) < self.min_degree
                  THEN fill(self, idx)
                  ELSE Ok(self)
         IN  [node |-> f.node, index |-> idx, raised |-> f.raised]

\* The step of _delete_internal for a key that is not in self.keys, before its
\* recursive call: the node after the child was filled, and the index of the
\* child the call goes to.
descend_step(self, idx) ==
    LET flag == (idx = Len(self.keys))
    IN  IF ~InRange(self.children, idx)
        THEN [node |-> self, index |-> idx, raised |-> TRUE]
        ELSE
        With(IF Len(At(self.children, idx).keys) < self.min_degree
             THEN fill(self, idx)
             ELSE Ok(self),
             LAMBDA f :
                 IF f.raised THEN [node |-> f.node, index |-> idx, raised |-> TRUE]
                 ELSE IF flag /\ idx > Len(f.node.keys)
                      THEN [node |-> f.node, index |-> idx - 1, raised |-> FALSE]
                      ELSE [node |-> f.node, index |-> idx, raised |-> FALSE])

\* _delete_internal always descending into children[idx] after fill.
delete_internal_no_flag(self, key) ==
    LET idx == get_key_index(self, key)
    IN  IF idx < Len(self.keys) /\ At(self.keys, idx) = key
        THEN IF self.is_leaf
             THEN remove_from_leaf(self, idx)
             ELSE remove_from_non_leaf(self, idx)
        ELSE IF ~InRange(self.children, idx) THEN Raise(self)
        ELSE LET f == IF Len(At(self.children, idx).keys) < self.min_degree
                      THEN fill(self, idx)
                      ELSE Ok(self)
             IN  IF f.raised THEN f ELSE delete_from_child(f.node, idx, key)

delete_internal(self, key) ==
    LET idx == get_key_index(self, key)
    IN  IF idx < Len(self.keys) /\ At(self.keys, idx) = key
        THEN IF self.is_leaf
             THEN remove_from_leaf(self, idx)
             ELSE remove_from_non_leaf(self, idx)
        ELSE With(descend_step(self, idx), LAMBDA st :
                 IF st.raised THEN Raise(st.node)
                 ELSE delete_from_child(st.node, st.index, key))

\* The recursive calls _delete_internal(self, key) makes, in order.  Each is
\* [before, after, node, key, made]: the calling node when it was entered and
\* when it makes the call, the child the call is made on, the key the call is
\* asked to delete, and whether the call was made (FALSE: the caller raised
\* instead; nothing follows).
RECURSIVE delete_calls(_, _)
delete_calls(self, key) ==
    LET idx == get_key_index(self, key)
        found == idx < Len(self.keys) /\ At(self.keys, idx) = key
    IN  IF found /\ self.is_leaf THEN <<>>
        ELSE
        LET st == IF found THEN non_leaf_step(self, idx)
                  ELSE LET d == descend_step(self, idx)
                       IN  [node |-> d.node, index |-> d.index, key |-> key,
                            raised |-> d.raised]
        IN  IF st.raised \/ ~InRange(st.node.children, st.index)
            THEN <<[before |-> self, after |-> st.node, node |-> self,
                    key |-> st.key, made |-> FALSE]>>
            ELSE LET child == At(st.node.children, st.index)
                 IN  <<[before |-> self, after |-> st.node, node |-> child,
                        key |-> st.key, made |-> TRUE]>>
                     \o delete_calls(child, st.key)

\* delete without the up-front search.
delete_no_search(self, key) == delete_internal(self, key)

\* search returns a BTreeNode (truthy) or None, so "not self.search(key)" is
\* "the search returned None".
delete(self, key) ==
    LET s == search(self, key)
    IN  IF s.raised THEN Raise(self)
        ELSE IF s.value = <<>> THEN Ok(self)
        ELSE delete_internal(self, key)

\* ------------------------------------------------------------------ BTree
\* BTree.__init__ accepting min_degree = 1.
BTree_init_from_one(degree) ==
    IF degree < 1 THEN [tree |-> <<>>, raised |-> TRUE]
    ELSE [tree |-> <<[root |-> BTreeNode(degree, TRUE), min_degree |-> degree]>>,
          raised |-> FALSE]

\* BTree.__init__: tree is <<>> when the constructor raises ValueError (no
\* object is made), else the fields of the new object.
BTree_init(degree) ==
    IF degree < MinDegree THEN [tree |-> <<>>, raised |-> TRUE]
    ELSE [tree |-> <<[root |-> BTreeNode(degree, TRUE), min_degree |-> degree]>>,
          raised |-> FALSE]

BTree_search(tree_root, key) ==
    IF tree_root.keys = <<>> THEN [value |-> <<>>, raised |-> FALSE]
    ELSE search(tree_root, key)

\* BTree.insert splitting the root one key before it is full.
insert_root_early(tree_root) ==
    IF Len(tree_root.keys) >= 2 * tree_root.min_degree - 2
    THEN LET new_root == [BTreeNode(tree_root.min_degree, FALSE) EXCEPT
                             !.children = <<tree_root>>]
             s == split_child(new_root, 0)
         IN  IF s.raised THEN Raise(tree_root) ELSE s
    ELSE Ok(tree_root)

\* The node BTree.insert calls insert_non_full on: the root, or the new root
\* made by splitting a full root.
insert_root(tree_root) ==
    IF is_full(tree_root)
    THEN LET new_root == [BTreeNode(tree_root.min_degree, FALSE) EXCEPT
                             !.children = <<tree_root>>]
             s == split_child(new_root, 0)
         IN  IF s.raised THEN Raise(tree_root) ELSE s
    ELSE Ok(tree_root)

BTree_insert(tree_root, key) ==
    LET r == insert_root(tree_root)
    IN  IF r.raised THEN r ELSE insert_non_full(r.node, key)

\* BTree.delete replacing every keyless root, a leaf included.
BTree_delete_any_keyless(tree_root, key) ==
    LET d == delete(tree_root, key)
    IN  IF d.raised THEN d
        ELSE IF Len(d.node.keys) = 0
        THEN IF ~InRange(d.node.children, 0) THEN Raise(d.node)
             ELSE Ok(At(d.node.children, 0))
        ELSE d

\* BTree.delete never replacing the root.
BTree_delete_no_shrink(tree_root, key) == delete(tree_root, key)

\* self.root is always a BTreeNode, which is truthy (the class defines neither
\* __bool__ nor __len__), so the guard "if not self.root" never returns.
BTree_delete(tree_root, key) ==
    With(delete(tree_root, key), LAMBDA d :
        IF d.raised THEN d
        ELSE IF Len(d.node.keys) = 0 /\ ~d.node.is_leaf
        THEN IF ~InRange(d.node.children, 0) THEN Raise(d.node)
             ELSE Ok(At(d.node.children, 0))
        ELSE d)

BTree_traverse(tree_root) == traverse(tree_root)

\* ---------------------------------------------------------------- main.py
\* src/main.py repeats the classes of src/btree/__init__.py with three
\* differences: BTreeNode.delete is the recursive routine itself, without the
\* search first, and returns at a leaf that lacks the key; remove_from_non_leaf
\* calls delete where the package calls _delete_internal; BTree.insert places
\* the key below the new root before it assigns the new root to self.root.
\* The methods whose text is the same are modelled by the same operators.
RECURSIVE main_delete(_, _)
main_delete_from_child(self, idx, key) ==
    IF ~InRange(self.children, idx) THEN Raise(self)
    ELSE LET r == main_delete(At(self.children, idx), key)
         IN  [node |-> [self EXCEPT !.children = SetAt(self.children, idx, r.node)],
              raised |-> r.raised]

main_remove_from_non_leaf(self, idx) ==
    With(non_leaf_step(self, idx), LAMBDA st :
        IF st.raised THEN Raise(st.node)
        ELSE main_delete_from_child(st.node, st.index, st.key))

\* main.py's BTreeNode.delete without the return at a leaf.
main_delete_no_return(self, key) ==
    LET idx == get_key_index(self, key)
    IN  IF idx < Len(self.keys) /\ At(self.keys, idx) = key
        THEN IF self.is_leaf
             THEN remove_from_leaf(self, idx)
             ELSE main_remove_from_non_leaf(self, idx)
        ELSE LET st == descend_step(self, idx)
             IN  IF st.raised THEN Raise(st.node)
                 ELSE main_delete_from_child(st.node, st.index, key)

main_delete(self, key) ==
    LET idx == get_key_index(self, key)
    IN  IF idx < Len(self.keys) /\ At(self.keys, idx) = key
        THEN IF self.is_leaf
             THEN remove_from_leaf(self, idx)
             ELSE main_remove_from_non_leaf(self, idx)
        ELSE IF self.is_leaf THEN Ok(self)
        ELSE With(descend_step(self, idx), LAMBDA st :
                 IF st.raised THEN Raise(st.node)
                 ELSE main_delete_from_child(st.node, st.index, key))

\* self.root is a BTreeNode, so "if not self.root" never returns.
main_BTree_search(tree_root, key) == search(tree_root, key)

\* main.py's BTree.insert without "self.root = new_root".
main_BTree_insert_no_assign(tree_root, key) ==
    IF is_full(tree_root)
    THEN LET s == split_child([BTreeNode(tree_root.min_degree, FALSE) EXCEPT
                                  !.children = <<tree_root>>], 0)
             i == insert_non_full(s.node, key)
         IN  IF s.raised THEN Raise(tree_root)
             ELSE [node |-> At(i.node.children, 0), raised |-> i.raised]
    ELSE insert_non_full(tree_root, key)

\* When insert_non_full raises below the new root, self.root is still the old
\* root, which split_child has cut to its lower half.
main_BTree_insert(tree_root, key) ==
    IF is_full(tree_root)
    THEN With(insert_root(tree_root), LAMBDA s :
             IF s.raised THEN Raise(tree_root)
             ELSE With(insert_non_full(s.node, key), LAMBDA i :
                      IF i.raised THEN Raise(At(i.node.children, 0)) ELSE i))
    ELSE insert_non_full(tree_root, key)

main_BTree_delete(tree_root, key) ==
    With(main_delete(tree_root, key), LAMBDA d :
        IF d.raised THEN d
        ELSE IF Len(d.node.keys) = 0 /\ ~d.node.is_leaf
        THEN IF ~InRange(d.node.children, 0) THEN Raise(d.node)
             ELSE Ok(At(d.node.children, 0))
        ELSE d)

\* --------------------------------------------------------------- descents
\* One move of each descent: <<>> when the routine returns (or raises) at
\* self, else the node it goes to next.
\* search calling itself on the node it is at.
search_next_same(self, key) ==
    LET idx == get_key_index(self, key)
    IN  IF self.keys = <<>> \/ self.is_leaf THEN <<>>
        ELSE IF idx < Len(self.keys) /\ At(self.keys, idx) = key THEN <<>>
        ELSE <<self>>

search_next(self, key) ==
    LET idx == get_key_index(self, key)
    IN  IF self.keys = <<>> \/ self.is_leaf THEN <<>>
        ELSE IF idx < Len(self.keys) /\ At(self.keys, idx) = key THEN <<>>
        ELSE IF ~InRange(self.children, idx) THEN <<>>
        ELSE <<At(self.children, idx)>>

insert_next(self, key) ==
    IF self.is_leaf THEN <<>>
    ELSE With(insert_step(self, key), LAMBDA st :
             IF st.raised \/ ~InRange(st.node.children, st.index) THEN <<>>
             ELSE <<At(st.node.children, st.index)>>)

get_predecessor_next(self) ==
    IF self.is_leaf \/ ~InRange(self.children, -1) THEN <<>>
    ELSE <<At(self.children, -1)>>

get_successor_next(self) ==
    IF self.is_leaf \/ ~InRange(self.children, 0) THEN <<>>
    ELSE <<At(self.children, 0)>>

\* The walk remove_from_non_leaf starts before it replaces keys[idx]:
\* get_predecessor on the left child, get_successor on the right child, or
\* none when it merges.
non_leaf_walk(self, idx) ==
    IF ~InRange(self.keys, idx) \/ ~InRange(self.children, idx) THEN <<>>
    ELSE IF Len(At(self.children, idx).keys) >= self.min_degree
    THEN <<[routine |-> "get_predecessor", node |-> At(self.children, idx)]>>
    ELSE IF ~InRange(self.children, idx + 1) THEN <<>>
    ELSE IF Len(At(self.children, idx + 1).keys) >= self.min_degree
    THEN <<[routine |-> "get_successor", node |-> At(self.children, idx + 1)]>>
    ELSE <<>>

\* The walk _delete_internal(self, key) starts at self, if any.
delete_walk(self, key) ==
    LET idx == get_key_index(self, key)
    IN  IF idx < Len(self.keys) /\ At(self.keys, idx) = key /\ ~self.is_leaf
        THEN non_leaf_walk(self, idx)
        ELSE <<>>

\* The recursive call of _delete_internal(self, key): the child it is made on
\* and the key it is asked to delete.
delete_next(self, key) ==
    LET idx == get_key_index(self, key)
        found == idx < Len(self.keys) /\ At(self.keys, idx) = key
    IN  IF found /\ self.is_leaf THEN <<>>
        ELSE With(IF found THEN non_leaf_step(self, idx)
                  ELSE With(descend_step(self, idx), LAMBDA d :
                           [node |-> d.node, index |-> d.index, key |-> key,
                            raised |-> d.raised]),
                  LAMBDA st :
                      IF st.raised \/ ~InRange(st.node.children, st.index) THEN <<>>
                      ELSE <<[node |-> At(st.node.children, st.index),
                              key |-> st.key]>>)

\* ------------------------------------------------------------ observation
Contains(seq, k) == \E i \in 1..Len(seq) : seq[i] = k

Range(seq) == {seq[i] : i \in 1..Len(seq)}

Duplicates(seq) == Len(seq) - Cardinality({seq[i] : i \in 1..Len(seq)})

Held(key) == Contains(traverse(root), key)

RECURSIVE Height(_)
Height(node) ==
    IF node.is_leaf \/ node.children = <<>> THEN 1 ELSE 1 + Height(node.children[1])

NoOp == [name |-> "new", held |-> FALSE, height |-> 0]

EmptyBag == [k \in Keys |-> 0]

\* A call in progress: name is the BTree method and arg its argument; routine
\* is the descent that is running, node the node it is at, key the key it
\* carries, steps the number of nodes it has visited and top the height of the
\* node it started at; outer holds the _delete_internal frame that waits for
\* get_predecessor or get_successor; after is the root the method leaves and
\* whether it raises.
Frame(name, arg, routine, key, node, steps, top, outer, after) ==
    [name |-> name, arg |-> arg, routine |-> routine, key |-> key, node |-> node,
     steps |-> steps, top |-> top, outer |-> outer, after |-> after]

NoCall == Frame("none", 0, "none", 0, <<>>, 0, 0, <<>>, <<>>)

\* ----------------------------------------------------------- state machine
\* root and min_degree are the fields of BTree; raised tells that the last
\* call raised.  Spec records the last call: op its name, whether the tree
\* held its argument before the call and the height the tree had before the
\* call, result what search returned.  SpecHistory records the calls made so
\* far: present is the set of keys inserted and not deleted since, inserted
\* counts the keys inserted while no delete has been called (only_inserts).
\* A call that raises ends the run: no call follows it.  main_root is the
\* root of main.py's BTree (SpecBoth) and call the call in progress
\* (SpecSteps); the other specifications leave them as they are.
Init ==
    /\ min_degree \in Degrees
    /\ root = BTreeNode(min_degree, TRUE)
    /\ raised = FALSE
    /\ op = NoOp
    /\ result = <<>>
    /\ present = {}
    /\ inserted = EmptyBag
    /\ only_inserts = TRUE
    /\ main_root = BTreeNode(min_degree, TRUE)
    /\ call = NoCall

CanInsert(key) ==
    Held(key) => key <= MaxDupKey /\ Duplicates(traverse(root)) < MaxDup

InsertCall(key) ==
    /\ ~raised
    /\ CanInsert(key)
    /\ LET r == BTree_insert(root, key)
       IN  /\ root' = r.node
           /\ raised' = r.raised
    /\ UNCHANGED <<min_degree, main_root, call>>

DeleteCall(key) ==
    /\ ~raised
    /\ LET r == BTree_delete(root, key)
       IN  /\ root' = r.node
           /\ raised' = r.raised
    /\ UNCHANGED <<min_degree, main_root, call>>

SearchCall(key) ==
    /\ ~raised
    /\ raised' = BTree_search(root, key).raised
    /\ UNCHANGED <<root, min_degree, main_root, call>>

Insert(key) ==
    /\ InsertCall(key)
    /\ op' = [name |-> "insert", held |-> Held(key), height |-> Height(root)]
    /\ result' = <<>>
    /\ UNCHANGED <<present, inserted, only_inserts>>

Delete(key) ==
    /\ DeleteCall(key)
    /\ op' = [name |-> "delete", held |-> Held(key), height |-> Height(root)]
    /\ result' = <<>>
    /\ UNCHANGED <<present, inserted, only_inserts>>

Search(key) ==
    /\ SearchCall(key)
    /\ op' = [name |-> "search", held |-> Held(key), height |-> Height(root)]
    /\ result' = BTree_search(root, key).value
    /\ UNCHANGED <<present, inserted, only_inserts>>

Next ==
    \/ \E key \in Keys : Insert(key)
    \/ \E key \in Keys : Delete(key)
    \/ \E key \in Keys : Search(key)

Spec == Init /\ [][Next]_vars

InsertTracked(key) ==
    /\ InsertCall(key)
    /\ present' = present \cup {key}
    /\ inserted' = IF only_inserts THEN [inserted EXCEPT ![key] = @ + 1] ELSE inserted
    /\ UNCHANGED <<op, result, only_inserts>>

DeleteTracked(key) ==
    /\ DeleteCall(key)
    /\ present' = present \ {key}
    /\ inserted' = EmptyBag
    /\ only_inserts' = FALSE
    /\ UNCHANGED <<op, result>>

SearchTracked(key) ==
    /\ SearchCall(key)
    /\ UNCHANGED <<op, result, present, inserted, only_inserts>>

NextHistory ==
    \/ \E key \in Keys : InsertTracked(key)
    \/ \E key \in Keys : DeleteTracked(key)
    \/ \E key \in Keys : SearchTracked(key)

SpecHistory == Init /\ [][NextHistory]_vars

\* SpecNew starts at the constructor call, with any argument: min_degree is the
\* argument, and when the constructor raised there is no tree (root is <<>>)
\* and no call follows.
InitNew ==
    /\ min_degree \in Arguments
    /\ LET c == BTree_init(min_degree)
       IN  /\ raised = c.raised
           /\ root = IF c.raised THEN <<>> ELSE c.tree[1].root
    /\ op = NoOp
    /\ result = <<>>
    /\ present = {}
    /\ inserted = EmptyBag
    /\ only_inserts = TRUE
    /\ main_root = root
    /\ call = NoCall

SpecNew == InitNew /\ [][Next]_vars

\* SpecBoth makes every call on two trees, root of the package's BTree and
\* main_root of main.py's BTree, both constructed with the same min_degree;
\* raised tells that the call raised on one of them.
InsertBoth(key) ==
    /\ ~raised
    /\ CanInsert(key)
    /\ LET r == BTree_insert(root, key)
           m == main_BTree_insert(main_root, key)
       IN  /\ root' = r.node
           /\ main_root' = m.node
           /\ raised' = (r.raised \/ m.raised)
    /\ UNCHANGED <<min_degree, op, result, present, inserted, only_inserts, call>>

DeleteBoth(key) ==
    /\ ~raised
    /\ LET r == BTree_delete(root, key)
           m == main_BTree_delete(main_root, key)
       IN  /\ root' = r.node
           /\ main_root' = m.node
           /\ raised' = (r.raised \/ m.raised)
    /\ UNCHANGED <<min_degree, op, result, present, inserted, only_inserts, call>>

SearchBoth(key) ==
    /\ ~raised
    /\ raised' = (BTree_search(root, key).raised
                    \/ main_BTree_search(main_root, key).raised)
    /\ UNCHANGED <<root, main_root, min_degree, op, result, present, inserted,
                   only_inserts, call>>

NextBoth ==
    \/ \E key \in Keys : InsertBoth(key)
    \/ \E key \in Keys : DeleteBoth(key)
    \/ \E key \in Keys : SearchBoth(key)

SpecBoth == Init /\ [][NextBoth]_vars

\* SpecSteps runs a call one node visit at a time.  A call begins, its
\* descents move call.node from a node to the node the routine calls itself
\* on, and when the last descent has returned the call returns: root becomes
\* what the method leaves (the nodes are mutated in place, so the method's
\* effect is that of the whole call).  Python runs a call without yielding, so
\* a step of a call in progress is always taken (weak fairness of Progress).
Returning == [call EXCEPT !.routine = "return", !.node = <<>>, !.outer = <<>>]

Start(name, arg, routine, node, after) ==
    Frame(name, arg, routine, arg, node, 1, Height(node), <<>>, <<after>>)

Returns(name, arg, after) ==
    Frame(name, arg, "return", arg, <<>>, 0, 0, <<>>, <<after>>)

Untouched == <<root, min_degree, raised, op, result, present, inserted,
               only_inserts, main_root>>

BeginInsert(key) ==
    /\ ~raised
    /\ call = NoCall
    /\ CanInsert(key)
    /\ LET r == insert_root(root)
           after == BTree_insert(root, key)
       IN  call' = IF r.raised THEN Returns("insert", key, after)
                   ELSE Start("insert", key, "insert_non_full", r.node, after)
    /\ UNCHANGED Untouched

BeginDelete(key) ==
    /\ ~raised
    /\ call = NoCall
    /\ call' = Start("delete", key, "search", root, BTree_delete(root, key))
    /\ UNCHANGED Untouched

BeginSearch(key) ==
    /\ ~raised
    /\ call = NoCall
    /\ LET after == [node |-> root, raised |-> BTree_search(root, key).raised]
       IN  call' = IF root.keys = <<>> THEN Returns("search", key, after)
                   ELSE Start("search", key, "search", root, after)
    /\ UNCHANGED Untouched

SearchStep ==
    /\ call.routine = "search"
    /\ call.steps < MaxSteps
    /\ \E next \in {search_next(call.node, call.key)} :
           call' = IF next # <<>>
                   THEN [call EXCEPT !.node = next[1], !.steps = @ + 1]
                   ELSE IF call.name = "delete"
                           /\ search(call.node, call.key) = [value |-> <<call.node>>,
                                                             raised |-> FALSE]
                   THEN Start("delete", call.arg, "_delete_internal", root,
                              call.after[1])
                   ELSE Returning
    /\ UNCHANGED Untouched

InsertStep ==
    /\ call.routine = "insert_non_full"
    /\ call.steps < MaxSteps
    /\ \E next \in {insert_next(call.node, call.key)} :
           call' = IF next # <<>>
                   THEN [call EXCEPT !.node = next[1], !.steps = @ + 1]
                   ELSE Returning
    /\ UNCHANGED Untouched

DeleteStep ==
    /\ call.routine = "_delete_internal"
    /\ call.steps < MaxSteps
    /\ \E walk \in {delete_walk(call.node, call.key)} :
       \E next \in {IF walk # <<>> THEN <<>> ELSE delete_next(call.node, call.key)} :
           call' = IF walk # <<>>
                   THEN [call EXCEPT !.routine = walk[1].routine,
                                     !.node = walk[1].node,
                                     !.steps = 1,
                                     !.top = Height(walk[1].node),
                                     !.outer = <<[node |-> call.node,
                                                  steps |-> call.steps,
                                                  top |-> call.top]>>]
                   ELSE IF next # <<>>
                   THEN [call EXCEPT !.node = next[1].node, !.key = next[1].key,
                                     !.steps = @ + 1]
                   ELSE Returning
    /\ UNCHANGED Untouched

WalkStep ==
    /\ call.routine \in {"get_predecessor", "get_successor"}
    /\ call.steps < MaxSteps
    /\ \E next \in {IF call.routine = "get_predecessor"
                    THEN get_predecessor_next(call.node)
                    ELSE get_successor_next(call.node)} :
       \E back \in {call.outer[1]} :
       \E resumed \in {IF next # <<>> THEN <<>>
                       ELSE delete_next(back.node, call.key)} :
           call' = IF next # <<>>
                   THEN [call EXCEPT !.node = next[1], !.steps = @ + 1]
                   ELSE IF resumed # <<>>
                   THEN [call EXCEPT !.routine = "_delete_internal",
                                     !.node = resumed[1].node,
                                     !.key = resumed[1].key,
                                     !.steps = back.steps + 1,
                                     !.top = back.top,
                                     !.outer = <<>>]
                   ELSE Returning
    /\ UNCHANGED Untouched

Return ==
    /\ call.routine = "return"
    /\ root' = call.after[1].node
    /\ raised' = call.after[1].raised
    /\ call' = NoCall
    /\ UNCHANGED <<min_degree, op, result, present, inserted, only_inserts,
                   main_root>>

Progress == SearchStep \/ InsertStep \/ DeleteStep \/ WalkStep \/ Return

NextSteps ==
    \/ \E key \in Keys : BeginInsert(key)
    \/ \E key \in Keys : BeginDelete(key)
    \/ \E key \in Keys : BeginSearch(key)
    \/ SearchStep
    \/ InsertStep
    \/ DeleteStep
    \/ WalkStep
    \/ Return

SpecSteps == Init /\ [][NextSteps]_vars /\ WF_vars(Progress)

\* ------------------------------------------------------- tree observations
RECURSIVE OccupancyOK(_, _)
OccupancyOK(node, is_root) ==
    /\ Len(node.keys) <= 2 * min_degree - 1
    /\ Len(node.keys) >= (IF is_root THEN 0 ELSE min_degree - 1)
    /\ \A i \in 1..Len(node.children) : OccupancyOK(node.children[i], FALSE)

RECURSIVE LeafDepths(_, _)
LeafDepths(node, depth) ==
    IF node.is_leaf THEN {depth}
    ELSE UNION {LeafDepths(node.children[i], depth + 1) : i \in 1..Len(node.children)}

RECURSIVE ShapeOK(_)
ShapeOK(node) ==
    /\ node.is_leaf => node.children = <<>>
    /\ ~node.is_leaf => Len(node.children) = Len(node.keys) + 1
    /\ \A i \in 1..Len(node.children) : ShapeOK(node.children[i])

\* Every key of the subtree lies strictly between lo and hi, the keys of each
\* node increase strictly and children[i] lies strictly between keys[i-1] and
\* keys[i].
RECURSIVE OrderOK(_, _, _)
OrderOK(node, lo, hi) ==
    /\ \A i \in 1..Len(node.keys) : lo < node.keys[i] /\ node.keys[i] < hi
    /\ \A i \in 1..(Len(node.keys) - 1) : node.keys[i] < node.keys[i + 1]
    /\ \A i \in 1..Len(node.children) :
          OrderOK(node.children[i],
                  IF i = 1 \/ i - 1 > Len(node.keys) THEN lo ELSE node.keys[i - 1],
                  IF i > Len(node.keys) THEN hi ELSE node.keys[i])

Ascending(seq) == \A i \in 1..(Len(seq) - 1) : seq[i] <= seq[i + 1]

RECURSIVE RemoveOne(_, _)
RemoveOne(seq, k) ==
    IF seq = <<>> THEN <<>>
    ELSE IF Head(seq) = k THEN Tail(seq)
    ELSE <<Head(seq)>> \o RemoveOne(Tail(seq), k)

RECURSIVE Repeat(_, _)
Repeat(k, n) == IF n = 0 THEN <<>> ELSE <<k>> \o Repeat(k, n - 1)

RECURSIVE SortedFrom(_, _)
SortedFrom(bag, k) ==
    IF k > MaxKey THEN <<>> ELSE Repeat(k, bag[k]) \o SortedFrom(bag, k + 1)

\* merge(idx) on parent joins two children of min_degree - 1 keys into one of
\* 2 * min_degree - 1 keys; parent loses one key and one child and keeps the
\* keys of its subtree.
MergeOK(parent, idx) ==
    LET t == parent.min_degree
        m == merge(parent, idx)
        merged == At(m.node.children, idx)
    IN  /\ ~m.raised
        /\ Len(At(parent.children, idx).keys) = t - 1
        /\ Len(At(parent.children, idx + 1).keys) = t - 1
        /\ Len(merged.keys) = 2 * t - 1
        /\ ~merged.is_leaf => Len(merged.children) = 2 * t
        /\ merged.is_leaf => merged.children = <<>>
        /\ Len(m.node.keys) = Len(parent.keys) - 1
        /\ Len(m.node.children) = Len(parent.children) - 1
        /\ traverse(m.node) = traverse(parent)

\* The caller of call e merged two of its children before the call.
Merged(e) == Len(e.after.keys) < Len(e.before.keys)

RECURSIVE Nodes(_)
Nodes(node) ==
    {node} \cup UNION {Nodes(node.children[i]) : i \in 1..Len(node.children)}

\* split_child(i) on parent, whose children[i] is child: children[i] keeps the
\* lower keys (and children), the new children[i + 1] has the upper ones, the
\* median is keys[i] of the parent, and the parent's other keys and children
\* keep their order.
SplitOK(parent, i) ==
    LET t == parent.min_degree
        child == At(parent.children, i)
        s == split_child(parent, i)
        lower == At(s.node.children, i)
        upper == At(s.node.children, i + 1)
    IN  /\ ~s.raised
        /\ lower.keys = SubSeq(child.keys, 1, t - 1)
        /\ upper.keys = SubSeq(child.keys, t + 1, 2 * t - 1)
        /\ lower.is_leaf = child.is_leaf /\ upper.is_leaf = child.is_leaf
        /\ lower.min_degree = t /\ upper.min_degree = t
        /\ IF child.is_leaf
           THEN lower.children = <<>> /\ upper.children = <<>>
           ELSE /\ lower.children = SubSeq(child.children, 1, t)
                /\ upper.children = SubSeq(child.children, t + 1, 2 * t)
        /\ At(s.node.keys, i) = child.keys[t]
        /\ s.node.keys = SubSeq(parent.keys, 1, i) \o <<child.keys[t]>>
                            \o SubSeq(parent.keys, i + 1, Len(parent.keys))
        /\ s.node.children = SubSeq(parent.children, 1, i) \o <<lower, upper>>
                            \o SubSeq(parent.children, i + 2, Len(parent.children))
        /\ s.node.is_leaf = parent.is_leaf

\* The nodes split_child can be called on: the internal nodes of the tree and
\* the new root BTree.insert puts above a full root.
Parents(tree_root) ==
    {n \in Nodes(tree_root) : ~n.is_leaf}
        \cup {[BTreeNode(tree_root.min_degree, FALSE) EXCEPT !.children = <<tree_root>>]}

\* The key _delete_internal is asked to delete at the caller of call n of
\* delete_calls(root, k).
Sought(calls, n, k) == IF n = 1 THEN k ELSE calls[n - 1].key

\* seq with the element at 0-based index i left out.
Without(seq, i) == SubSeq(seq, 1, i) \o SubSeq(seq, i + 2, Len(seq))

\* remove_from_non_leaf(idx) on self, an internal node: the predecessor from
\* a left child of at least min_degree keys, else the successor from such a
\* right child, else the merge of the two children.
NonLeafOK(self, idx) ==
    LET t == self.min_degree
        left == At(self.children, idx)
        right == At(self.children, idx + 1)
        before_left == traverse(left)
        before_right == traverse(right)
        r == remove_from_non_leaf(self, idx)
    IN  /\ ~r.raised
        /\ r.node.is_leaf = self.is_leaf
        /\ IF Len(left.keys) >= t
           THEN /\ \A x \in Range(before_left) : x <= At(r.node.keys, idx)
                /\ r.node.keys = SetAt(self.keys, idx, before_left[Len(before_left)])
                /\ traverse(At(r.node.children, idx))
                      = SubSeq(before_left, 1, Len(before_left) - 1)
                /\ Without(r.node.children, idx) = Without(self.children, idx)
           ELSE IF Len(right.keys) >= t
           THEN /\ \A x \in Range(before_right) : x >= At(r.node.keys, idx)
                /\ r.node.keys = SetAt(self.keys, idx, before_right[1])
                /\ traverse(At(r.node.children, idx + 1))
                      = SubSeq(before_right, 2, Len(before_right))
                /\ Without(r.node.children, idx + 1) = Without(self.children, idx + 1)
           ELSE /\ Len(left.keys) = t - 1 /\ Len(right.keys) = t - 1
                /\ r.node.keys = Without(self.keys, idx)
                /\ Len(r.node.children) = Len(self.children) - 1
                /\ traverse(At(r.node.children, idx)) = before_left \o before_right
                /\ Without(r.node.children, idx)
                      = Without(Without(self.children, idx), idx)

\* ------------------------------------------------------------------ claims

\* C1: after every insert and delete, every non-root node holds between
\* min_degree - 1 and 2 * min_degree - 1 keys and the root between 0 and
\* 2 * min_degree - 1 keys.
C1_NodeOccupancy == OccupancyOK(root, TRUE)

\* A delete of a held key has acted and left a child of the root at the
\* minimum of min_degree - 1 keys.
C1_Witness ==
    /\ op.name = "delete" /\ op.held
    /\ ~root.is_leaf
    /\ \E i \in 1..Len(root.children) : Len(root.children[i].keys) = min_degree - 1

\* C2: after every insert and delete, all leaves are at the same depth.
C2_Balance == Cardinality(LeafDepths(root, 0)) = 1

\* A delete of a held key has acted on a tree of three levels and left it
\* with two.
C2_Witness == op.name = "delete" /\ op.held /\ op.height = 3 /\ Height(root) = 2

\* C3: after every insert and delete (inserts of a held key included) the keys
\* of every node increase strictly, every key of children[i] lies strictly
\* between keys[i-1] and keys[i], and so no key occurs twice in the tree.
C3_KeyOrder ==
    /\ OrderOK(root, 0, MaxKey + 1)
    /\ Duplicates(traverse(root)) = 0

\* C4: after every insert and delete, a node that is not a leaf has one child
\* more than it has keys, and a leaf has no children.
C4_NodeShape == ShapeOK(root)

\* A delete of a held key has acted on a tree of three levels and merged the
\* two children of its root, nodes that are not leaves, into the new root.
C4_Witness ==
    /\ op.name = "delete" /\ op.held
    /\ op.height = 3 /\ Height(root) = 2
    /\ Len(root.children) = 2 * min_degree

\* C5: in every reachable state, search(k) returns a node whose keys contain k
\* for every key k in the tree, and None for every key never inserted or
\* deleted since it was last inserted.
C5_SearchCorrect ==
    \A k \in Keys :
        LET r == BTree_search(root, k)
        IN  /\ ~r.raised
            /\ Held(k) => r.value # <<>> /\ Contains(r.value[1].keys, k)
            /\ k \notin present => r.value = <<>>

\* C6: after inserts alone, the in-order traversal is the ascending sort of
\* the inserted keys, none lost and none added.
C6_OrderingRoundTrip == only_inserts => traverse(root) = SortedFrom(inserted, 1)

\* Inserts alone, one key more than once, have built a tree of three levels.
C6_Witness == only_inserts /\ inserted[1] >= 2 /\ Height(root) = 3

\* C7: for every key k and every reachable tree, after delete(k) search(k)
\* returns None and the in-order traversal does not contain k.
C7_DeleteThenSearch ==
    \A k \in Keys :
        LET d == BTree_delete(root, k)
        IN  /\ BTree_search(d.node, k).value = <<>>
            /\ ~Contains(traverse(d.node), k)

\* C8: for every reachable tree and every key k it holds, the traversal after
\* delete(k) is the traversal before with one occurrence of k removed, the
\* other keys still there and still ascending.
C8_DeleteRemovesOnlyKey ==
    \A k \in Keys :
        Held(k) =>
            LET after == traverse(BTree_delete(root, k).node)
            IN  /\ after = RemoveOne(traverse(root), k)
                /\ Ascending(after)

\* A delete of a held key has acted on a tree of three levels.
C8_Witness == op.name = "delete" /\ op.held /\ op.height = 3

\* C9: for every reachable tree and every key k it does not hold, delete(k)
\* leaves the root and every node's keys and children as they were.
C9_DeleteAbsentNoOp ==
    \A k \in Keys : ~Held(k) => BTree_delete(root, k) = Ok(root)

\* A delete of a key the tree does not hold has acted on a tree of three
\* levels.
C9_Witness == op.name = "delete" /\ ~op.held /\ op.height = 3 /\ Height(root) = 3

\* C10: no insert, delete or search raises.
C10_NoRaise == ~raised

\* A delete has acted on the empty tree.
C10_Witness ==
    /\ op.name = "delete" /\ ~op.held /\ op.height = 1
    /\ root = BTreeNode(min_degree, TRUE)

\* C11: BTree(min_degree) raises ValueError and makes no tree whenever
\* min_degree < 2; for every min_degree >= 2 it succeeds and the initial root
\* is a leaf with zero keys and zero children.
C11_Construction ==
    op.name = "new" =>
        /\ raised <=> min_degree < 2
        /\ raised => root = <<>>
        /\ ~raised => root.is_leaf /\ root.keys = <<>> /\ root.children = <<>>

C11_Witness == op.name = "new" /\ raised /\ min_degree = 1 /\ root = <<>>

\* C12: once every stored key has been deleted, BTree.root is an existing leaf
\* with zero keys (never null, never an internal node); a further delete
\* changes nothing and a further search returns None.
C12_EmptyTerminal ==
    traverse(root) = <<>> =>
        /\ ~raised
        /\ root = BTreeNode(min_degree, TRUE)
        /\ \A k \in Keys :
              /\ BTree_delete(root, k) = Ok(root)
              /\ BTree_search(root, k) = [value |-> <<>>, raised |-> FALSE]

C12_Witness == op.name = "delete" /\ op.held /\ traverse(root) = <<>> /\ root.is_leaf

\* C13: for every reachable tree and every key k, delete(k) twice leaves the
\* tree as delete(k) once does (same traversal, same search results): the
\* second call is a no-op.
C13_DeleteIdempotent ==
    \A k \in Keys :
        LET once == BTree_delete(root, k)
            twice == BTree_delete(once.node, k)
        IN  /\ ~once.raised /\ ~twice.raised
            /\ twice.node = once.node
            /\ traverse(twice.node) = traverse(once.node)
            /\ \A j \in Keys :
                  (BTree_search(twice.node, j).value = <<>>)
                      <=> (BTree_search(once.node, j).value = <<>>)

\* C14: BTree.insert splits the root exactly when the root holds
\* 2 * min_degree - 1 keys at the call; the split makes a new internal root
\* with exactly one key, the old root's median, and two children of
\* min_degree - 1 keys each, before the new key is placed.  From the empty tree
\* the root is a leaf for the first 2 * min_degree - 1 inserts and is internal
\* with exactly one key after insert number 2 * min_degree.
C14_RootSplit ==
    /\ LET r == insert_root(root)
       IN  /\ ~r.raised
           /\ IF Len(root.keys) = 2 * min_degree - 1
              THEN /\ ~r.node.is_leaf
                   /\ r.node.keys = <<At(root.keys, min_degree - 1)>>
                   /\ Len(r.node.children) = 2
                   /\ \A c \in 1..2 : Len(r.node.children[c].keys) = min_degree - 1
                   /\ Height(r.node) = Height(root) + 1
                   /\ \A k \in Keys :
                         LET i == BTree_insert(root, k).node
                         IN  ~i.is_leaf /\ i.keys = r.node.keys /\ Len(i.children) = 2
              ELSE /\ r.node = root
                   /\ \A k \in Keys :
                         LET i == BTree_insert(root, k).node
                         IN  i.is_leaf = root.is_leaf /\ Height(i) = Height(root)
    /\ only_inserts =>
          LET n == Len(SortedFrom(inserted, 1))
          IN  /\ n <= 2 * min_degree - 1 => root.is_leaf
              /\ n = 2 * min_degree => ~root.is_leaf /\ Len(root.keys) = 1

\* With min_degree 2, inserting 1, 2, 3, 4 has given root [2] with children
\* [1] and [3, 4].
C14_Witness ==
    /\ only_inserts
    /\ inserted = [k \in Keys |-> IF k <= 4 THEN 1 ELSE 0]
    /\ min_degree = 2
    /\ root.keys = <<2>>
    /\ Len(root.children) = 2
    /\ root.children[1].keys = <<1>>
    /\ root.children[2].keys = <<3, 4>>

\* C15: the root is replaced in exactly two situations: by an insert that
\* found the root full (the height grows by exactly one), and at the end of a
\* delete that left an internal root with zero keys (its single child becomes
\* the root, the height shrinks by exactly one).  Every other insert, delete
\* or search keeps the root node and the height.
C15_RootReplacement ==
    /\ LET full == Len(root.keys) = 2 * min_degree - 1
           r == insert_root(root).node
       IN  /\ full => r # root /\ r.children[1].keys = SliceTo(root.keys, min_degree - 1)
           /\ ~full => r = root
    /\ \A k \in Keys :
          LET full == Len(root.keys) = 2 * min_degree - 1
              i == BTree_insert(root, k).node
              d == delete(root, k).node
              b == BTree_delete(root, k).node
          IN  /\ Height(i) = Height(root) + (IF full THEN 1 ELSE 0)
              /\ IF ~d.is_leaf /\ d.keys = <<>>
                 THEN /\ Len(d.children) = 1
                      /\ b = d.children[1]
                      /\ Height(b) = Height(root) - 1
                 ELSE /\ b = d
                      /\ Height(b) = Height(root)
    /\ op.name = "search" => Height(root) = op.height
    /\ op.name = "insert" => Height(root) - op.height \in {0, 1}
    /\ op.name = "delete" => op.height - Height(root) \in {0, 1}

\* A delete has replaced the internal root of a tree of three levels by its
\* single child.
C15_Witness ==
    op.name = "delete" /\ Height(root) = op.height - 1 /\ ~root.is_leaf

\* C16: in every delete of a key the tree holds, each node _delete_internal is
\* called on recursively (each node below the root) holds at least min_degree
\* keys at the moment of the call, so no node is left with fewer than
\* min_degree - 1 keys.
C16_DeleteNoUnderflow ==
    \A k \in Keys :
        Held(k) =>
            /\ \A e \in Range(delete_calls(root, k)) :
                  e.made => Len(e.node.keys) >= min_degree
            /\ OccupancyOK(BTree_delete(root, k).node, TRUE)

\* A delete has acted, and the tree holds a key whose delete makes two
\* recursive calls, the first after its caller filled the child.
C16_Witness ==
    /\ ~only_inserts
    /\ \E k \in Keys :
          /\ Held(k)
          /\ Len(delete_calls(root, k)) = 2
          /\ LET e == delete_calls(root, k)[1]
             IN  /\ e.made /\ ~Contains(e.before.keys, k)
                 /\ Len(At(e.before.children, get_key_index(e.before, k)).keys)
                        = min_degree - 1

\* C17: in every delete of a key the tree holds, every recursive call
\* _delete_internal(x) is made on a node whose subtree contains x, also after
\* fill and the re-derived index (idx - 1 when the last child was merged into
\* its left sibling); the recursion never reaches a leaf that lacks the key it
\* is asked to delete.
C17_DeleteTargetHeld ==
    \A k \in Keys :
        Held(k) =>
            \A e \in Range(delete_calls(root, k)) :
                /\ e.made
                /\ Contains(traverse(e.node), e.key)
                /\ e.node.is_leaf => Contains(e.node.keys, e.key)

\* A delete has acted, and the tree holds a key greater than every key of the
\* root whose delete merges the root's last child into its left sibling and
\* goes on in the merged node.
C17_Witness ==
    /\ ~only_inserts
    /\ \E k \in Keys :
          /\ Held(k)
          /\ delete_calls(root, k) # <<>>
          /\ LET e == delete_calls(root, k)[1]
             IN  /\ e.made
                 /\ get_key_index(e.before, k) = Len(e.before.keys)
                 /\ Merged(e)
                 /\ e.node = At(e.after.children, Len(e.before.keys) - 1)

\* C18: whenever merge(idx) is called during a delete (by fill or by
\* remove_from_non_leaf), children[idx] and children[idx + 1] hold exactly
\* min_degree - 1 keys each, so the merged node holds exactly
\* 2 * min_degree - 1 keys (and 2 * min_degree children if internal), the
\* parent loses exactly one key and one child and the keys of its subtree are
\* otherwise unchanged.
C18_MergeNoOverflow ==
    \A k \in Keys :
        Held(k) =>
            \A e \in Range(delete_calls(root, k)) :
                Merged(e) =>
                    \E idx \in 0..(Len(e.before.keys) - 1) :
                        /\ merge(e.before, idx).node = e.after
                        /\ MergeOK(e.before, idx)

\* A delete has acted, and the tree holds a key whose delete merges two
\* internal nodes.
C18_Witness ==
    /\ ~only_inserts
    /\ \E k \in Keys :
          /\ Held(k)
          /\ \E e \in Range(delete_calls(root, k)) :
                Merged(e) /\ e.made /\ ~e.node.is_leaf

\* C19: in every BTree.insert, each call of insert_non_full (on the root and
\* on every node the descent reaches, also after a child was split and the
\* index re-derived) is on a node with strictly fewer than 2 * min_degree - 1
\* keys, so the insertion never makes a node of more than
\* 2 * min_degree - 1 keys.
C19_InsertNonFull ==
    \A k \in Keys :
        LET r == insert_root(root)
        IN  /\ ~r.raised
            /\ \A n \in Range(insert_calls(r.node, k)) :
                  Len(n.keys) < 2 * min_degree - 1
            /\ ~BTree_insert(root, k).raised
            /\ OccupancyOK(BTree_insert(root, k).node, TRUE)

\* Only inserts have acted, and the tree has an internal node with a full child
\* that an insert splits before it goes on in the new right half.
C19_Witness ==
    /\ only_inserts /\ inserted # EmptyBag
    /\ \E k \in Keys :
          \E n \in Range(insert_calls(insert_root(root).node, k)) :
              /\ ~n.is_leaf
              /\ is_full(At(n.children, get_key_index(n, k)))
              /\ insert_step(n, k).index = get_key_index(n, k) + 1

\* C20: when split_child(i) is applied to a parent whose children[i] holds
\* 2 * min_degree - 1 keys, afterwards children[i] holds exactly the former
\* lower min_degree - 1 keys, the new node at children[i + 1] the former upper
\* min_degree - 1 keys (if internal, the upper min_degree children, while
\* children[i] keeps the lower min_degree), the former median is
\* parent.keys[i], and the other keys and children of the parent keep their
\* relative order.
C20_SplitChild ==
    \A parent \in Parents(root) :
        \A i \in 0..(Len(parent.children) - 1) :
            Len(At(parent.children, i).keys) = 2 * min_degree - 1 => SplitOK(parent, i)

\* Inserts have split the full internal root of a tree of two levels, and the
\* tree has an internal node with keys whose full child is not its last.
C20_Witness ==
    /\ only_inserts /\ Height(root) = 3
    /\ \E parent \in Parents(root) :
          \E i \in 0..(Len(parent.children) - 2) :
              Len(parent.keys) > 0 /\ is_full(At(parent.children, i))

\* C21: when a delete finds its key at keys[idx] of an internal node, then if
\* children[idx] has at least min_degree keys, keys[idx] becomes the largest
\* key of the left subtree and that key is removed from the left subtree;
\* otherwise, if children[idx + 1] has at least min_degree keys, keys[idx]
\* becomes the smallest key of the right subtree and that key is removed from
\* the right subtree; only when both children have min_degree - 1 keys are
\* they merged and the key deleted from the merged child.
C21_InternalDelete ==
    \A k \in Keys :
        Held(k) =>
            LET calls == delete_calls(root, k)
            IN  \A n \in 1..Len(calls) :
                    LET self == calls[n].before
                        key == Sought(calls, n, k)
                        idx == get_key_index(self, key)
                    IN  (idx < Len(self.keys) /\ At(self.keys, idx) = key)
                            => NonLeafOK(self, idx)

\* A delete has acted, and the tree holds a key in an internal node below the
\* root, between two children of which only the right one can give a key.
C21_Witness ==
    /\ ~only_inserts
    /\ \E k \in Keys :
          /\ Held(k)
          /\ LET calls == delete_calls(root, k)
             IN  \E n \in 2..Len(calls) :
                     LET self == calls[n].before
                         idx == get_key_index(self, k)
                     IN  /\ Sought(calls, n, k) = k
                         /\ idx < Len(self.keys) /\ At(self.keys, idx) = k
                         /\ Len(At(self.children, idx).keys) < min_degree
                         /\ Len(At(self.children, idx + 1).keys) >= min_degree

\* C22: for every min_degree >= 2 and every sequence of insert and delete
\* calls made on the BTree of src/main.py and on the BTree of
\* src/btree/__init__.py alike, after each call both trees have the same
\* in-order traversal and give the same found / not found answer to every
\* search.
C22_CopiesEquivalent ==
    /\ ~raised
    /\ traverse(main_root) = traverse(root)
    /\ \A k \in Keys :
          (main_BTree_search(main_root, k).value = <<>>)
              <=> (BTree_search(root, k).value = <<>>)

\* The two trees hold the same keys in nodes that differ.
C22_Witness ==
    /\ main_root # root
    /\ traverse(main_root) = traverse(root)
    /\ Height(main_root) # Height(root)

\* C23: in src/main.py, BTree.delete(k) for a key k the tree does not hold
\* leaves the root, the height and every node's keys and children as they
\* were.
C23_MainDeleteAbsentNoOp ==
    \A k \in Keys :
        ~Contains(traverse(main_root), k)
            => main_BTree_delete(main_root, k) = Ok(main_root)

\* C24: every BTree.insert, BTree.delete and BTree.search call that begins
\* returns; each descent (search, insert_non_full, _delete_internal,
\* get_predecessor, get_successor) moves from a node to a node one level
\* lower and visits at most as many nodes as the tree it runs on has levels,
\* which is the height of that tree (counted in edges) plus one.
C24_Termination ==
    /\ [](call.steps <= call.top /\ call.top <= Height(root) + 1)
    /\ [][call'.routine = call.routine /\ call'.steps = call.steps + 1
             => Height(call'.node) = Height(call.node) - 1]_vars
    /\ []<>(call.name = "none")

\* _delete_internal has come down three levels to a leaf after
\* get_predecessor or get_successor walked below an internal node.
C24_Witness ==
    /\ call.routine = "_delete_internal"
    /\ call.steps = 3
    /\ call.steps = call.top
    /\ call.key # call.arg
    /\ call.node.is_leaf

====
